---- MODULE Spec2Model ----
(***************************************************************************)
(* Model of pserver/oauth/oauth.py: the OAuth utility (service-token       *)
(* accessor, renewal loop, authority transport), the bearer-token          *)
(* extraction plugin, the user factory and the getCredentials service.     *)
(*                                                                         *)
(* All coroutines run on one asyncio event loop, so every action below is  *)
(* the code executed by one task between two suspension points (a network  *)
(* round trip of call_auth, or asyncio.sleep).  The authority's answers    *)
(* and the inbound requests are inputs chosen with \E.                     *)
(***************************************************************************)
EXTENDS Integers, FiniteSets

(* ---------------------------- bounds ----------------------------------- *)
MaxClock == 2                       \* the clock runs over 0..MaxClock
MaxExp   == MaxClock + 1            \* exp claims range over 0..MaxExp

(* ---------------------------- domains ---------------------------------- *)
Loop       == "loop"                \* the task running OAuth.initialize
Bearers    == {"r1"}                \* tasks serving requests that go through
                                    \* extract_user and create_user
Clients    == {"r2"}                \* tasks serving the getCredentials endpoint
Requests   == Bearers \cup Clients
Tasks      == {Loop} \cup Requests
TokenValues == {"T1", "T2"}         \* service_token values the authority issues
Logins     == {"alice", "bob"}
RoleNames  == {"editor", "manager"}
RoleValues == {0, 1, 2}             \* raw integers of the authority's role map
GroupNames == {"staff"}

None   == "None"                    \* Python None where a string is expected
NoneD  == [isNone |-> TRUE]         \* Python None where a dict is expected
NoKey  == "NoKey"                   \* a key that is not in a dict
NoAttr == [noAttr |-> TRUE]         \* attribute not set yet (before initialize)

(* Outcome of a call: a value, or the exception it raised.                 *)
Ok(v)     == [exc |-> "none", val |-> v]
Raise(e)  == [exc |-> e, val |-> NoneD]

(* A signed token as seen by jwt.decode: whether the signature verifies,   *)
(* the iat and exp claims, and the remaining claims.                       *)
Jwt(sig, iat, exp, claims) == [sigOK |-> sig, iat |-> iat, exp |-> exp, claims |-> claims]

(* jwt.decode (PyJWT): signature first, then iat, then exp.                *)
(* iat in the future raises InvalidIssuedAtError; exp < now raises         *)
(* ExpiredSignatureError (exp = now is still accepted); neither of them is *)
(* a DecodeError.                                                          *)
jwt_decode(tk, t, verify_iat) ==
    IF ~tk.sigOK THEN Raise("DecodeError")
    ELSE IF verify_iat /\ tk.iat > t THEN Raise("InvalidIssuedAtError")
    ELSE IF tk.exp < t THEN Raise("ExpiredSignatureError")
    ELSE Ok(tk.claims)

(* call_auth, the status-200 branch: decode, and on InvalidIssuedAtError   *)
(* decode again with NON_IAT_VERIFY.                                       *)
decode_response(body, t) ==
    LET first == jwt_decode(body, t, TRUE)
    IN  IF first.exc = "InvalidIssuedAtError"
        THEN jwt_decode(body, t, FALSE)
        ELSE first

(* Mutation: the body is decoded whatever the status is.                   *)
call_auth_any_status(status, body, t) ==
    decode_response(body, t)

(* call_auth once the response is in: result stays None on a non-200.      *)
call_auth(status, body, t) ==
    IF status = 200 THEN decode_response(body, t) ELSE Ok(NoneD)

(* ------------------------ authority and client inputs ------------------ *)
(* An answer of the authority: a non-200 status with a text that is only  *)
(* logged, or status 200 with a signed body.                               *)
ErrorBody == [sigOK |-> FALSE, iat |-> 0, exp |-> 0, claims |-> [error |-> TRUE]]
Answers(bodies) ==
    {[status |-> 500, body |-> ErrorBody]} \cup
    { [status |-> 200, body |-> b] : b \in bodies }

(* Body of a getAuthToken answer: the exp claim the signature check looks  *)
(* at is the exp the utility stores with the token.                        *)
AuthTokenBodies(t) ==
    { Jwt(FALSE, t, MaxExp, [service_token |-> "T1", exp |-> MaxExp]) } \cup
    { Jwt(TRUE, i, e, [service_token |-> v, exp |-> e]) :
        i \in {t, t + 1}, e \in 0..MaxExp, v \in TokenValues }

(* Bodies of the other answers: exp 0 is in the past once the clock moved. *)
(* One body whose signature does not verify stands for all of them.       *)
Bodies(t, Claims) ==
    { Jwt(FALSE, t, MaxExp, CHOOSE c \in Claims : TRUE) } \cup
    { Jwt(TRUE, i, e, c) : i \in {t, t + 1}, e \in {0, MaxExp}, c \in Claims }

ValidTokenClaims == { [user |-> u] : u \in Logins \cup {NoKey} }
AuthCodeClaims   == { [auth_code |-> "code1"] }
RoleMaps         == UNION { [S -> RoleValues] : S \in SUBSET RoleNames }
GroupMaps        == [GroupNames -> {0, 1}]
UserClaims       ==
    { [result |-> [roles |-> rm, groups |-> gm, name |-> "Name"]] :
        rm \in RoleMaps, gm \in GroupMaps }

(* Claims of an inbound bearer token; 'login' or 'token' may be missing.   *)
(* The logins are interchangeable, so the bearer token names one of them   *)
(* while the authority may answer with either.                             *)
BearerClaims == { [login |-> l, token |-> k] :
                    l \in {"alice", NoKey}, k \in {"tok1", NoKey} }
NoHeader     == [schema |-> "none"]
Headers(t)   == {NoHeader, [schema |-> "basic"]} \cup
                { [schema |-> "bearer", token |-> b] : b \in Bodies(t, BearerClaims) }

(* ------------------------------ state ---------------------------------- *)
VARIABLES
    now,                 \* timegm(datetime.utcnow().utctimetuple())
    _service_token,      \* OAuth._service_token
    pc,                  \* where each task is suspended
    exc,                 \* the exception a task ended with
    loop_now,            \* local 'now' of initialize
    wake,                \* clock value at which asyncio.sleep returns
    creds,               \* local 'creds' of extract_user, per request
    validation,          \* local 'validation' of extract_user, per request
    _cache_credentials,  \* request._cache_credentials
    user_data,           \* local 'result' of get_info, per request
    _cache_user,         \* request._cache_user
    reply,               \* what getCredentials.__call__ returned
    ret,                 \* the return of OAuth.service_token made by the last step
    sent,                \* the request to the authority sent by the last step
    recv                 \* the answer of the authority taken in by the last step

vars == <<now, _service_token, pc, exc, loop_now, wake, creds, validation,
          _cache_credentials, user_data, _cache_user, reply, ret, sent, recv>>

NoKeyD     == [noKey |-> TRUE]      \* a dict-valued key that is not in a dict
EmptyCreds == [jwt |-> NoKeyD, user |-> NoKey]
EmptyMap   == [k \in {} |-> 0]
NoUser     == [kind |-> "unset", id |-> None, roles |-> EmptyMap, groups |-> {}]
NoCall     == [noCall |-> TRUE]     \* get_info has not got an answer
NoRet      == [task |-> "none", path |-> "none", kind |-> "none", value |-> None, exp |-> 0]
NoSend     == [task |-> "none", call |-> "none", service_token |-> NoKey, exp |-> 0]

NoRecv     == [task |-> "none", call |-> "none", status |-> 0]

AnonymousUser ==
    [kind |-> "AnonymousUser", id |-> None, roles |-> EmptyMap, groups |-> {}]

(* The calls whose parameters carry the service token, and how many        *)
(* getAuthToken calls are waiting for their answer.                        *)
ServiceTokenCalls == {"validToken", "getUser", "getAuthCode"}
AuthTokenWait     == {"init_st", "gi_st", "ac_st"}
AuthTokenInFlight == { t \in Tasks : pc[t] \in AuthTokenWait }

Init ==
    /\ now = 0
    /\ _service_token = NoAttr
    /\ pc = [t \in Tasks |-> IF t = Loop THEN "new" ELSE "idle"]
    /\ exc = [t \in Tasks |-> "none"]
    /\ loop_now = 0
    /\ wake = 0
    /\ creds = [r \in Requests |-> EmptyCreds]
    /\ validation = [r \in Requests |-> None]
    /\ _cache_credentials = [r \in Requests |-> EmptyCreds]
    /\ user_data = [r \in Requests |-> NoCall]
    /\ _cache_user = [r \in Requests |-> NoUser]
    /\ reply = [r \in Requests |-> NoKey]
    /\ ret = NoRet
    /\ sent = NoSend
    /\ recv = NoRecv

(* --------------------------- OAuth.service_token ----------------------- *)
(* Mutation: a token in its last second is taken to be expired.            *)
TokenValidEarly(tok, t) ==
    tok # NoneD /\ tok # NoAttr /\ tok.exp > t + 1

(* Lines 83-85: the held token is returned when it is set and exp > now.   *)
TokenValid(tok, t) ==
    tok # NoneD /\ tok # NoAttr /\ tok.exp > t

(* Mutation: a failed renewal clears the held token.                       *)
service_token_finish_clearing(res, tok) ==
    IF res.exc # "none"
    THEN [exc |-> res.exc, kind |-> "raise", path |-> "raised", value |-> None, token |-> tok]
    ELSE IF res.val # NoneD
    THEN [exc |-> "none", kind |-> "return", path |-> "renewed",
          value |-> res.val.service_token, token |-> res.val]
    ELSE [exc |-> "none", kind |-> "return", path |-> "failed", value |-> None, token |-> NoneD]

(* Lines 93-96, after call_auth gave res: a result replaces the held token *)
(* and its service_token is returned; no result returns None.  An          *)
(* exception of call_auth passes through.                                  *)
service_token_finish(res, tok) ==
    IF res.exc # "none"
    THEN [exc |-> res.exc, kind |-> "raise", path |-> "raised", value |-> None, token |-> tok]
    ELSE IF res.val # NoneD
    THEN [exc |-> "none", kind |-> "return", path |-> "renewed",
          value |-> res.val.service_token, token |-> res.val]
    ELSE [exc |-> "none", kind |-> "return", path |-> "failed", value |-> None, token |-> tok]

RetHeld(t, tok) ==
    [task |-> t, path |-> "held", kind |-> "return", value |-> tok.service_token, exp |-> tok.exp]
RetFinish(t, f) ==
    [task |-> t, path |-> f.path, kind |-> f.kind, value |-> f.value,
     exp |-> IF f.value # None THEN f.token.exp ELSE 0]
Send(t, call, st, e) ==
    [task |-> t, call |-> call, service_token |-> st, exp |-> e]
SendAuthToken(t) == Send(t, "getAuthToken", NoKey, 0)
Recv(t, call, status) ==
    [task |-> t, call |-> call, status |-> status]

(* The clock moves on its own.                                             *)
Tick ==
    /\ now < MaxClock
    /\ now' = now + 1
    /\ ret' = NoRet
    /\ sent' = NoSend
    /\ UNCHANGED <<_service_token, pc, exc, loop_now, wake, creds, validation,
                   _cache_credentials, user_data, _cache_user, reply>>
    /\ recv' = NoRecv

reqVars  == <<creds, validation, _cache_credentials, user_data, _cache_user, reply>>

(* --------------------------- OAuth.initialize -------------------------- *)
(* Lines 66-68: read exp of the held token (TypeError when it is None),    *)
(* sleep for exp - now with the 'now' taken before the token was awaited.  *)
(* asyncio.sleep of a delay <= 0 returns at once.                          *)
LoopSleep(tok, t0) ==
    IF tok = NoneD
    THEN /\ pc' = [pc EXCEPT ![Loop] = "crashed"]
         /\ exc' = [exc EXCEPT ![Loop] = "TypeError"]
         /\ wake' = 0
         /\ loop_now' = 0
    ELSE /\ pc' = [pc EXCEPT ![Loop] = "sleeping"]
         /\ wake' = now + (IF tok.exp - t0 > 0 THEN tok.exp - t0 ELSE 0)
         /\ loop_now' = 0
         /\ UNCHANGED exc

(* Lines 63-65: one pass of the while loop up to its first suspension.     *)
LoopBody(tok) ==
    IF TokenValid(tok, now)
    THEN /\ ret' = RetHeld(Loop, tok)
         /\ sent' = NoSend
         /\ LoopSleep(tok, now)
    ELSE /\ ret' = NoRet
         /\ sent' = SendAuthToken(Loop)
         /\ pc' = [pc EXCEPT ![Loop] = "init_st"]
         /\ loop_now' = now
         /\ UNCHANGED <<exc, wake>>

(* Lines 59-65: the utility is started; _service_token is set to None and  *)
(* the first pass asks the authority for a token.                          *)
Initialize ==
    /\ pc[Loop] = "new"
    /\ _service_token' = NoneD
    /\ LoopBody(NoneD)
    /\ UNCHANGED <<now, reqVars>>
    /\ recv' = NoRecv

(* The answer to the loop's getAuthToken arrives: lines 93-96, then 66-68. *)
InitTokenResponse ==
    /\ pc[Loop] = "init_st"
    /\ \E a \in Answers(AuthTokenBodies(now)) :
         recv' = Recv(Loop, "getAuthToken", a.status) /\
         LET f == service_token_finish(call_auth(a.status, a.body, now), _service_token)
         IN  /\ _service_token' = f.token
             /\ ret' = RetFinish(Loop, f)
             /\ sent' = NoSend
             /\ IF f.exc # "none"
                THEN /\ pc' = [pc EXCEPT ![Loop] = "crashed"]
                     /\ exc' = [exc EXCEPT ![Loop] = f.exc]
                     /\ wake' = 0
                     /\ loop_now' = 0
                ELSE LoopSleep(f.token, loop_now)
    /\ UNCHANGED <<now, reqVars>>

(* asyncio.sleep is over: the next pass of the loop.                       *)
LoopWake ==
    /\ pc[Loop] = "sleeping"
    /\ now >= wake
    /\ LoopBody(_service_token)
    /\ UNCHANGED <<now, _service_token, reqVars>>
    /\ recv' = NoRecv

loopVars == <<loop_now, wake>>

(* --------------------- PloneJWTExtraction.extract_user ----------------- *)
(* dict.update: the keys of c overwrite those of cache.                    *)
dict_update(cache, c) ==
    [jwt  |-> IF c.jwt # NoKeyD THEN c.jwt ELSE cache.jwt,
     user |-> IF c.user # NoKey THEN c.user ELSE cache.user]

(* Mutation: a token that fails the local decode is still sent on for      *)
(* remote validation.                                                      *)
extract_begin_undecoded(h, tok, t) ==
    IF h.schema # "bearer"
    THEN [step |-> "return", exc |-> "none", creds |-> EmptyCreds]
    ELSE IF h.token.claims.token = NoKey
    THEN [step |-> "raise", exc |-> "KeyError", creds |-> EmptyCreds]
    ELSE IF tok = NoneD
    THEN [step |-> "raise", exc |-> "TypeError", creds |-> EmptyCreds]
    ELSE [step |-> "call", exc |-> "none",
          creds |-> [jwt |-> h.token.claims, user |-> NoKey]]

(* Lines 189-206 and 103: up to the moment the validToken call is sent.    *)
(* Only jwt.exceptions.DecodeError is caught around the local decode;      *)
(* creds['jwt']['token'] and self._service_token['service_token'] are      *)
(* plain subscripts.                                                       *)
extract_begin(h, tok, t) ==
    IF h.schema # "bearer"
    THEN [step |-> "return", exc |-> "none", creds |-> EmptyCreds]
    ELSE LET d == jwt_decode(h.token, t, TRUE)
         IN  IF d.exc = "DecodeError"
             THEN [step |-> "return", exc |-> "none", creds |-> EmptyCreds]
             ELSE IF d.exc # "none"
             THEN [step |-> "raise", exc |-> d.exc, creds |-> EmptyCreds]
             ELSE IF d.val.token = NoKey
             THEN [step |-> "raise", exc |-> "KeyError", creds |-> EmptyCreds]
             ELSE IF tok = NoneD
             THEN [step |-> "raise", exc |-> "TypeError", creds |-> EmptyCreds]
             ELSE [step |-> "call", exc |-> "none",
                   creds |-> [jwt |-> d.val, user |-> NoKey]]

(* Lines 108-113: what validate_token returns for call_auth's result.      *)
validate_token_result(result) ==
    IF result # NoneD
    THEN IF result.user # NoKey THEN result.user ELSE None
    ELSE None

(* Mutation: the remote login is taken without comparing it.               *)
LoginValidatedUncompared(v, claims) ==
    v # None

(* Lines 207-208: the remote login is taken only when it is the login of   *)
(* the decoded bearer token.                                               *)
LoginValidated(v, claims) ==
    v # None /\ v = claims.login

(* Lines 207-211 with the subscript creds['jwt']['login'], which is only   *)
(* evaluated when validation is not None.                                  *)
extract_finish(v, c) ==
    IF v # None /\ c.jwt.login = NoKey
    THEN [exc |-> "KeyError", creds |-> c]
    ELSE IF LoginValidated(v, c.jwt)
    THEN [exc |-> "none", creds |-> [c EXCEPT !.user = v]]
    ELSE [exc |-> "none", creds |-> c]

(* Requests are served once the host has started the utility, that is     *)
(* once initialize has set _service_token.                                 *)
ExtractUserWith(r, h) ==
    /\ pc[r] = "idle"
    /\ pc[Loop] # "new"
    /\  LET b == extract_begin(h, _service_token, now)
         IN  /\ ret' = NoRet
             /\ CASE b.step = "return" ->
                       /\ _cache_credentials' =
                            [_cache_credentials EXCEPT ![r] = dict_update(@, b.creds)]
                       /\ pc' = [pc EXCEPT ![r] = "extracted"]
                       /\ sent' = NoSend
                       /\ UNCHANGED <<exc, creds>>
                  [] b.step = "raise" ->
                       /\ pc' = [pc EXCEPT ![r] = "extract_raised"]
                       /\ exc' = [exc EXCEPT ![r] = b.exc]
                       /\ sent' = NoSend
                       /\ UNCHANGED <<_cache_credentials, creds>>
                  [] b.step = "call" ->
                       /\ creds' = [creds EXCEPT ![r] = b.creds]
                       /\ pc' = [pc EXCEPT ![r] = "vt_wait"]
                       /\ sent' = Send(r, "validToken",
                                       _service_token.service_token, _service_token.exp)
                       /\ UNCHANGED <<exc, _cache_credentials>>
    /\ UNCHANGED <<now, _service_token, loopVars, validation, user_data, _cache_user, reply>>
    /\ recv' = NoRecv

(* extract_user on any Authorization header.                               *)
ExtractUser(r) ==
    \E h \in Headers(now) : ExtractUserWith(r, h)

(* The answer to validToken arrives: lines 108-113, then 207-214.          *)
ValidTokenResponse(r) ==
    /\ pc[r] = "vt_wait"
    /\ \E a \in Answers(Bodies(now, ValidTokenClaims)) :
         recv' = Recv(r, "validToken", a.status) /\
         LET res == call_auth(a.status, a.body, now)
         IN  IF res.exc # "none"
             THEN /\ pc' = [pc EXCEPT ![r] = "extract_raised"]
                  /\ exc' = [exc EXCEPT ![r] = res.exc]
                  /\ UNCHANGED <<validation, _cache_credentials>>
             ELSE LET v == validate_token_result(res.val)
                      e == extract_finish(v, creds[r])
                  IN  /\ validation' = [validation EXCEPT ![r] = v]
                      /\ IF e.exc # "none"
                         THEN /\ pc' = [pc EXCEPT ![r] = "extract_raised"]
                              /\ exc' = [exc EXCEPT ![r] = e.exc]
                              /\ UNCHANGED _cache_credentials
                         ELSE /\ pc' = [pc EXCEPT ![r] = "extracted"]
                              /\ _cache_credentials' =
                                   [_cache_credentials EXCEPT ![r] = dict_update(@, e.creds)]
                              /\ UNCHANGED exc
    /\ creds' = [creds EXCEPT ![r] = EmptyCreds]
    /\ ret' = NoRet
    /\ sent' = NoSend
    /\ UNCHANGED <<now, _service_token, loopVars, user_data, _cache_user, reply>>

(* ------------------ OAuthPloneUser and its factory --------------------- *)
(* Mutation: the branch for 0 is lost, so 0 falls through to Unset.        *)
RoleSettingNoDeny(value) ==
    IF value = 1 THEN "Allow" ELSE "Unset"

(* Lines 264-269: 1 is Allow, 0 is Deny, anything else is Unset.           *)
RoleSetting(value) ==
    IF value = 1 THEN "Allow" ELSE IF value = 0 THEN "Deny" ELSE "Unset"

(* Mutation: the check for an empty role mapping is dropped.               *)
NoRolesUnchecked(roles) ==
    FALSE

(* Line 274: the check that raises 'no roles in this Scope'.               *)
NoRoles(roles) ==
    Cardinality(DOMAIN roles) = 0

(* Lines 261-276: _init_data on the decoded getUser answer.                *)
_init_data(login, data) ==
    LET roles  == [k \in DOMAIN data.result.roles |-> RoleSetting(data.result.roles[k])]
        groups == { k \in DOMAIN data.result.groups : data.result.groups[k] # 0 }
    IN  IF NoRoles(roles)
        THEN [exc |-> "KeyError", user |-> NoUser]
        ELSE [exc |-> "none",
              user |-> [kind |-> "OAuthPloneUser", id |-> login,
                        roles |-> roles, groups |-> groups]]

(* Lines 256-259: get_info once call_auth gave res.                        *)
get_info_finish(login, res) ==
    IF res.exc # "none" THEN [exc |-> res.exc, user |-> NoUser]
    ELSE IF res.val = NoneD THEN [exc |-> "KeyError", user |-> NoUser]
    ELSE _init_data(login, res.val)

(* Mutation: the except clause names another exception.                    *)
CaughtValueError(e) ==
    e = "ValueError"

(* Line 229: the except clause of create_user.                             *)
Caught(e) ==
    e = "KeyError"

(* Lines 226-231: create_user once get_info ended with outcome g.          *)
CreateUserEnd(r, g) ==
    IF g.exc = "none"
    THEN /\ _cache_user' = [_cache_user EXCEPT ![r] = g.user]
         /\ pc' = [pc EXCEPT ![r] = "done"]
         /\ UNCHANGED exc
    ELSE IF Caught(g.exc)
    THEN /\ _cache_user' = [_cache_user EXCEPT ![r] = AnonymousUser]
         /\ pc' = [pc EXCEPT ![r] = "done"]
         /\ UNCHANGED exc
    ELSE /\ pc' = [pc EXCEPT ![r] = "create_raised"]
         /\ exc' = [exc EXCEPT ![r] = g.exc]
         /\ UNCHANGED _cache_user

(* Mutation: the test for 'user' in the credentials is dropped.            *)
UserInCredentialsUntested(cache) ==
    TRUE

(* Line 223: 'user' in self.request._cache_credentials.                    *)
UserInCredentials(cache) ==
    cache.user # NoKey

(* Lines 222-228 and 244-254: create_user up to its first suspension.      *)
CreateUser(r) ==
    /\ pc[r] = "extracted"
    /\ IF ~UserInCredentials(_cache_credentials[r])
       THEN /\ _cache_user' = [_cache_user EXCEPT ![r] = AnonymousUser]
            /\ pc' = [pc EXCEPT ![r] = "done"]
            /\ ret' = NoRet
            /\ sent' = NoSend
       ELSE IF TokenValid(_service_token, now)
       THEN /\ ret' = RetHeld(r, _service_token)
            /\ sent' = Send(r, "getUser", _service_token.service_token, _service_token.exp)
            /\ pc' = [pc EXCEPT ![r] = "gu_wait"]
            /\ UNCHANGED _cache_user
       ELSE /\ ret' = NoRet
            /\ sent' = SendAuthToken(r)
            /\ pc' = [pc EXCEPT ![r] = "gi_st"]
            /\ UNCHANGED _cache_user
    /\ UNCHANGED <<now, _service_token, exc, loopVars, creds, validation,
                   _cache_credentials, user_data, reply>>
    /\ recv' = NoRecv

(* The answer to get_info's getAuthToken arrives: lines 93-96, then the    *)
(* getUser call is sent with whatever service_token returned.              *)
GetInfoTokenResponse(r) ==
    /\ pc[r] = "gi_st"
    /\ \E a \in Answers(AuthTokenBodies(now)) :
         recv' = Recv(r, "getAuthToken", a.status) /\
         LET f == service_token_finish(call_auth(a.status, a.body, now), _service_token)
         IN  /\ _service_token' = f.token
             /\ ret' = RetFinish(r, f)
             /\ IF f.exc # "none"
                THEN /\ CreateUserEnd(r, [exc |-> f.exc, user |-> NoUser])
                     /\ sent' = NoSend
                ELSE /\ sent' = Send(r, "getUser", f.value,
                                     IF f.value # None THEN f.token.exp ELSE 0)
                     /\ pc' = [pc EXCEPT ![r] = "gu_wait"]
                     /\ UNCHANGED <<exc, _cache_user>>
    /\ UNCHANGED <<now, loopVars, creds, validation, _cache_credentials, user_data, reply>>

(* The answer to getUser arrives: lines 256-259, 261-276, 229-231.         *)
GetUserResponse(r) ==
    /\ pc[r] = "gu_wait"
    /\ \E a \in Answers(Bodies(now, UserClaims)) :
         recv' = Recv(r, "getUser", a.status) /\
         LET res == call_auth(a.status, a.body, now)
         IN  /\ user_data' = [user_data EXCEPT ![r] =
                                IF res.exc = "none" THEN res.val ELSE @]
             /\ CreateUserEnd(r, get_info_finish(_cache_credentials[r].user, res))
    /\ ret' = NoRet
    /\ sent' = NoSend
    /\ UNCHANGED <<now, _service_token, loopVars, creds, validation,
                   _cache_credentials, reply>>

(* ------------------- getCredentials and OAuth.auth_code ---------------- *)
(* Lines 281-293 and 70-76: the parameters are built first, so the service *)
(* token is awaited before getAuthCode is sent.                            *)
GetCredentials(r) ==
    /\ pc[r] = "idle"
    /\ pc[Loop] # "new"
    /\ IF TokenValid(_service_token, now)
       THEN /\ ret' = RetHeld(r, _service_token)
            /\ sent' = Send(r, "getAuthCode", _service_token.service_token,
                            _service_token.exp)
            /\ pc' = [pc EXCEPT ![r] = "ac_wait"]
       ELSE /\ ret' = NoRet
            /\ sent' = SendAuthToken(r)
            /\ pc' = [pc EXCEPT ![r] = "ac_st"]
    /\ UNCHANGED <<now, _service_token, exc, loopVars, reqVars>>
    /\ recv' = NoRecv

(* The answer to auth_code's getAuthToken arrives.                         *)
AuthCodeTokenResponse(r) ==
    /\ pc[r] = "ac_st"
    /\ \E a \in Answers(AuthTokenBodies(now)) :
         recv' = Recv(r, "getAuthToken", a.status) /\
         LET f == service_token_finish(call_auth(a.status, a.body, now), _service_token)
         IN  /\ _service_token' = f.token
             /\ ret' = RetFinish(r, f)
             /\ IF f.exc # "none"
                THEN /\ pc' = [pc EXCEPT ![r] = "raised"]
                     /\ exc' = [exc EXCEPT ![r] = f.exc]
                     /\ sent' = NoSend
                ELSE /\ sent' = Send(r, "getAuthCode", f.value,
                                     IF f.value # None THEN f.token.exp ELSE 0)
                     /\ pc' = [pc EXCEPT ![r] = "ac_wait"]
                     /\ UNCHANGED exc
    /\ UNCHANGED <<now, loopVars, reqVars>>

(* The answer to getAuthCode arrives: lines 77-79 and 294-296.             *)
AuthCodeResponse(r) ==
    /\ pc[r] = "ac_wait"
    /\ \E a \in Answers(Bodies(now, AuthCodeClaims)) :
         recv' = Recv(r, "getAuthCode", a.status) /\
         LET res == call_auth(a.status, a.body, now)
         IN  IF res.exc # "none"
             THEN /\ pc' = [pc EXCEPT ![r] = "raised"]
                  /\ exc' = [exc EXCEPT ![r] = res.exc]
                  /\ UNCHANGED reply
             ELSE /\ pc' = [pc EXCEPT ![r] = "done"]
                  /\ reply' = [reply EXCEPT ![r] =
                                 IF res.val # NoneD THEN res.val.auth_code ELSE None]
                  /\ UNCHANGED exc
    /\ ret' = NoRet
    /\ sent' = NoSend
    /\ UNCHANGED <<now, _service_token, loopVars, creds, validation,
                   _cache_credentials, user_data, _cache_user>>

(* The request is over; the task serves the next one.                      *)
NewRequest(r) ==
    /\ pc[r] \in {"done", "raised", "extract_raised", "create_raised"}
    /\ pc' = [pc EXCEPT ![r] = "idle"]
    /\ exc' = [exc EXCEPT ![r] = "none"]
    /\ creds' = [creds EXCEPT ![r] = EmptyCreds]
    /\ validation' = [validation EXCEPT ![r] = None]
    /\ _cache_credentials' = [_cache_credentials EXCEPT ![r] = EmptyCreds]
    /\ user_data' = [user_data EXCEPT ![r] = NoCall]
    /\ _cache_user' = [_cache_user EXCEPT ![r] = NoUser]
    /\ reply' = [reply EXCEPT ![r] = NoKey]
    /\ ret' = NoRet
    /\ sent' = NoSend
    /\ UNCHANGED <<now, _service_token, loopVars>>
    /\ recv' = NoRecv

Next ==
    \/ Tick
    \/ Initialize
    \/ InitTokenResponse
    \/ LoopWake
    \/ \E r \in Bearers : ExtractUser(r)
    \/ \E r \in Bearers : ValidTokenResponse(r)
    \/ \E r \in Bearers : CreateUser(r)
    \/ \E r \in Bearers : GetInfoTokenResponse(r)
    \/ \E r \in Bearers : GetUserResponse(r)
    \/ \E r \in Clients : GetCredentials(r)
    \/ \E r \in Clients : AuthCodeTokenResponse(r)
    \/ \E r \in Clients : AuthCodeResponse(r)
    \/ \E r \in Requests : NewRequest(r)

Spec == Init /\ [][Next]_vars

(* ============================ properties =============================== *)

(* C1: every non-null value returned by OAuth.service_token belongs to a   *)
(* token whose exp is strictly greater than the clock at the moment of     *)
(* return.                                                                 *)
C1_ReturnedTokenUnexpired ==
    (ret.kind = "return" /\ ret.value # None) => ret.exp > now

(* C2: at most one getAuthToken call to the authority is in flight at any  *)
(* time, whichever tasks evaluate OAuth.service_token.                     *)
C2_SingleFlight ==
    Cardinality(AuthTokenInFlight) <= 1

(* C3: the request's credentials contain 'user' only if the remote         *)
(* validToken result is non-null and equals the 'login' claim of the       *)
(* decoded bearer token; a different remote login is never stored.         *)
C3_UserOnlyIfLoginsMatch ==
    \A r \in Bearers :
        _cache_credentials[r].user # NoKey =>
            /\ validation[r] # None
            /\ _cache_credentials[r].jwt # NoKeyD
            /\ validation[r] = _cache_credentials[r].jwt.login
            /\ _cache_credentials[r].user = _cache_credentials[r].jwt.login

C3_Witness ==
    \E r \in Bearers :
        /\ _cache_credentials[r].user = "alice"
        /\ validation[r] = "alice"

(* C4: every outbound call that carries a service-token parameter carries  *)
(* a token that is present and unexpired at the moment the call is sent.   *)
C4_SentTokenValid ==
    sent.call \in ServiceTokenCalls =>
        (sent.service_token # None /\ sent.exp > now)

(* C5: extract_user never raises to its caller.                            *)
C5_ExtractNeverRaises ==
    \A r \in Bearers : pc[r] # "extract_raised"

(* C6: when the getAuthToken call fails with a non-200 answer,             *)
(* OAuth.service_token ends with an explicit error, not a normal return.   *)
C6_FailureIsExplicit ==
    ret.path = "failed" => ret.kind = "raise"

(* The steps in which a task evaluates OAuth.service_token from its start. *)
EvaluatesServiceToken ==
    \/ Initialize
    \/ LoopWake
    \/ \E r \in Bearers : CreateUser(r) /\ _cache_credentials[r].user # NoKey
    \/ \E r \in Clients : GetCredentials(r)

(* C7: an evaluation of OAuth.service_token made while a token is held and *)
(* its exp is strictly greater than the clock returns that token's value,  *)
(* sends no getAuthToken and leaves the held token as it is.               *)
C7_ValidTokenReused ==
    [][ ( /\ _service_token # NoAttr
          /\ _service_token # NoneD
          /\ _service_token.exp > now
          /\ EvaluatesServiceToken )
        => ( /\ ret'.path = "held"
             /\ ret'.value = _service_token.service_token
             /\ sent'.call # "getAuthToken"
             /\ AuthTokenInFlight' = AuthTokenInFlight
             /\ _service_token' = _service_token ) ]_vars

C7_Witness ==
    /\ ret.path = "held"
    /\ ret.task \in Requests
    /\ now > 0

(* C8: if the getUser result has a role map that is empty or whose entries *)
(* are all other than 0 and 1, create_user stores an anonymous user.       *)
C8_UnsetRolesAnonymous ==
    \A r \in Bearers :
        ( /\ user_data[r] # NoCall
          /\ user_data[r] # NoneD
          /\ \A k \in DOMAIN user_data[r].result.roles :
                 user_data[r].result.roles[k] \notin {0, 1} )
        => _cache_user[r] = AnonymousUser

(* C9: a non-anonymous user stored in request._cache_user has a non-empty  *)
(* role mapping.                                                           *)
C9_StoredUserHasRoles ==
    \A r \in Bearers :
        _cache_user[r].kind = "OAuthPloneUser" => DOMAIN _cache_user[r].roles # {}

C9_Witness ==
    \E r \in Bearers :
        /\ _cache_user[r].kind = "OAuthPloneUser"
        /\ user_data[r] # NoCall
        /\ pc[r] = "done"

(* C10: when getUser gives no result (non-200), create_user does not fail  *)
(* the request and stores an anonymous user.                               *)
C10_NoResultAnonymous ==
    \A r \in Bearers :
        user_data[r] = NoneD =>
            (pc[r] = "done" /\ _cache_user[r] = AnonymousUser)

C10_Witness ==
    \E r \in Bearers :
        /\ user_data[r] = NoneD
        /\ _cache_credentials[r].user # NoKey

(* C11: every decode the module performs accepts a correctly signed,       *)
(* unexpired token whose issued-at claim is in the future: no coroutine    *)
(* ends with InvalidIssuedAtError.                                         *)
C11_FutureIatAccepted ==
    \A t \in Tasks : exc[t] # "InvalidIssuedAtError"

(* C12: _init_data maps every entry of the raw role map on its own: 1 to   *)
(* Allow, 0 to Deny, any other value to Unset; the role names are the      *)
(* same, and no value of a non-empty role map makes the mapping fail.      *)
C12_RolesMappedPerEntry ==
    \A r \in Bearers :
        /\ _cache_user[r].kind = "OAuthPloneUser" =>
             LET raw == user_data[r].result.roles
                 m   == _cache_user[r].roles
             IN  /\ DOMAIN m = DOMAIN raw
                 /\ \A k \in DOMAIN raw :
                      /\ raw[k] = 1 => m[k] = "Allow"
                      /\ raw[k] = 0 => m[k] = "Deny"
                      /\ raw[k] \notin {0, 1} => m[k] = "Unset"
        /\ ( /\ user_data[r] # NoCall
             /\ user_data[r] # NoneD
             /\ DOMAIN user_data[r].result.roles # {} )
           => _cache_user[r].kind = "OAuthPloneUser"

C12_Witness ==
    \E r \in Bearers :
        /\ _cache_user[r].kind = "OAuthPloneUser"
        /\ DOMAIN _cache_user[r].roles = RoleNames
        /\ _cache_user[r].roles["editor"] = "Deny"
        /\ _cache_user[r].roles["manager"] = "Unset"

(* C13: the step that takes in the answer to a call never sends that call  *)
(* again, and on a non-200 status the caller gets None: service_token      *)
(* takes its no-result path, validate_token gives None, get_info has no    *)
(* result, auth_code returns None.                                         *)
C13_OneRequestPerCall ==
    recv.task # "none" =>
        /\ ~(sent.task = recv.task /\ sent.call = recv.call)
        /\ recv.status # 200 =>
             CASE recv.call = "getAuthToken" ->
                    ret.task = recv.task /\ ret.path = "failed" /\ ret.value = None
               [] recv.call = "validToken" ->
                    validation[recv.task] = None /\ pc[recv.task] = "extracted"
               [] recv.call = "getUser" ->
                    user_data[recv.task] = NoneD
               [] recv.call = "getAuthCode" ->
                    reply[recv.task] = None /\ pc[recv.task] = "done"

C13_Witness ==
    /\ recv.call = "getAuthToken"
    /\ recv.status # 200
    /\ _service_token # NoneD

(* C14: a getAuthToken call of the renewal loop that fails does not end    *)
(* the loop.                                                               *)
C14_LoopSurvivesFailure ==
    (recv.task = Loop /\ recv.status # 200) => pc[Loop] # "crashed"

(* The authority answers every getAuthToken with a token whose exp is in   *)
(* the future.                                                             *)
AuthorityGood ==
    recv'.call = "getAuthToken" => (ret'.path = "renewed" /\ ret'.exp > now)

NextGood ==
    \/ Tick
    \/ Initialize
    \/ InitTokenResponse /\ AuthorityGood
    \/ LoopWake
    \/ \E r \in Bearers : ExtractUser(r)
    \/ \E r \in Bearers : ValidTokenResponse(r)
    \/ \E r \in Bearers : CreateUser(r)
    \/ \E r \in Bearers : GetInfoTokenResponse(r) /\ AuthorityGood
    \/ \E r \in Bearers : GetUserResponse(r)
    \/ \E r \in Clients : GetCredentials(r)
    \/ \E r \in Clients : AuthCodeTokenResponse(r) /\ AuthorityGood
    \/ \E r \in Clients : AuthCodeResponse(r)
    \/ \E r \in Requests : NewRequest(r)

SpecGood == Init /\ [][NextGood]_vars

(* C15: with the renewal loop running and every getAuthToken succeeding    *)
(* with a future exp, no request finds the held token expired and sends    *)
(* getAuthToken itself.                                                    *)
C15_RequestsNeverRenew ==
    ~( /\ sent.task \in Requests
       /\ sent.call = "getAuthToken"
       /\ _service_token # NoneD )

(* C16: extract_user sends validToken only for a bearer token that the     *)
(* local decode accepts; for any other header it sends nothing and the     *)
(* request's credentials get no 'user'.                                    *)
C16_ValidTokenAfterDecode ==
    [][ \A r \in Bearers :
          (pc[r] = "idle" /\ pc'[r] # "idle") =>
            \A h \in Headers(now) :
              ExtractUserWith(r, h) =>
                LET decodes == /\ h.schema = "bearer"
                               /\ h.token.sigOK
                               /\ h.token.iat <= now
                               /\ h.token.exp >= now
                IN  /\ sent'.call = "validToken" => decodes
                    /\ ~decodes => /\ sent' = NoSend
                                   /\ pc'[r] # "vt_wait"
                                   /\ _cache_credentials'[r].user = NoKey ]_vars

C16_Witness ==
    /\ sent.call = "validToken"
    /\ sent.task \in Bearers
    /\ pc["r1"] = "vt_wait"

(* C17: getUser is sent only for a request whose credentials contain       *)
(* 'user'; without it create_user sends nothing and stores an anonymous    *)
(* user.                                                                   *)
C17_GetUserOnlyWithLogin ==
    [][ /\ sent'.call = "getUser" => _cache_credentials'[sent'.task].user # NoKey
        /\ \A r \in Bearers :
             (CreateUser(r) /\ _cache_credentials[r].user = NoKey) =>
                 /\ sent' = NoSend
                 /\ pc'[r] = "done"
                 /\ _cache_user'[r] = AnonymousUser ]_vars

C17_Witness ==
    \E r \in Bearers :
        /\ pc[r] = "done"
        /\ _cache_credentials[r].user = NoKey
        /\ _cache_user[r] = AnonymousUser

(* C18: a getAuthToken answer with a non-200 status leaves _service_token  *)
(* as it was; it only changes when initialize sets it to None or when a    *)
(* getAuthToken answer with status 200 replaces it by the answer's record. *)
C18_FailureKeepsToken ==
    [][ /\ (recv'.call = "getAuthToken" /\ recv'.status # 200)
             => _service_token' = _service_token
        /\ _service_token' # _service_token =>
             \/ _service_token = NoAttr /\ _service_token' = NoneD
             \/ /\ recv'.call = "getAuthToken"
                /\ recv'.status = 200
                /\ _service_token' = [service_token |-> ret'.value, exp |-> ret'.exp] ]_vars

C18_Witness ==
    /\ recv.call = "getAuthToken"
    /\ recv.status # 200
    /\ ret.path = "failed"
    /\ _service_token # NoneD
    /\ _service_token.exp <= now

====
